---- MODULE Spec2Model ----
(***************************************************************************)
(* Multi-tier admission control of the API gateway:                        *)
(*   setting/rate_limit.go          the policy store (three scopes)        *)
(*   middleware/model-rate-limit.go the sliding-window counter, the        *)
(*                                  token-bucket and in-process tiers and  *)
(*                                  the admission orchestrator             *)
(* Time is counted in whole seconds.  Every backend command of a request   *)
(* is one step, so that requests of the same caller interleave between     *)
(* commands as goroutines of different gateway processes do.               *)
(***************************************************************************)
EXTENDS Integers, Sequences, FiniteSets, TLC

\* ------------------------------------------------------------------ bounds
\* requests in flight in the orchestrator specification
NumReqs == 2
\* requests in the token-bucket specification
BucketReqs == 4
\* clock advances per behaviour
MaxTicks == 2
\* clock advances per behaviour of the token-bucket specification
BucketTicks == 1
\* administrative updates per behaviour of the policy-store specification
MaxUpdates == 2
\* words of an upstream error message
MaxWords == 3

\* ------------------------------------------------------- program constants
\* checkTokenDailyRateLimit: duration := int64(86400)
DaySeconds == 86400
\* time.Minute, in seconds
MinuteSeconds == 60
\* gin's default response status, and the statuses the aborts write
StatusOK == 200
StatusTooManyRequests == 429
StatusInternalServerError == 500
\* if c.Writer.Status() < 400
ErrorStatusFloor == 400

Max2(a, b) == IF a >= b THEN a ELSE b
Min2(a, b) == IF a <= b THEN a ELSE b

Reqs == 1..Max2(NumReqs, BucketReqs)

\* the three scopes: key-minute, key-daily and the legacy user scope, in the
\* order ModelRequestRateLimit evaluates them
Scopes == {"Token", "TokenDaily", "ModelRequest"}
TokenScopes == {"Token", "TokenDaily"}
Groups == {"default", "vip"}

VARIABLES
    \* ---- setting/rate_limit.go: one entry per scope
    RateLimitEnabled,          \* [Scopes -> BOOLEAN]
    RateLimitDurationMinutes,  \* ["ModelRequest", "Token" -> minutes]
    RateLimitCount,            \* [Scopes -> total limit]
    RateLimitSuccessCount,     \* [Scopes -> success limit]
    RateLimitGroup,            \* [Scopes -> [subset of Groups -> <<total, success>>]]
    RateLimitMutex,            \* [Scopes -> [readers, writer]]
    \* ---- the administrative update in progress, and the last lookup
    upd,
    got,
    \* ---- deployment and request context
    RedisEnabled,
    tokenId,
    tokenGroup,
    userGroup,
    \* ---- the channel gatekeeper's call: its inputs and its answer
    channel,
    \* ---- time
    now,
    ticks,
    \* ---- counters
    rdb,        \* shared backend lists: key -> [list (newest first), expireAt]
    bucket,     \* shared backend token buckets: key -> [init, tokens, last]
    store,      \* in-process limiter: key -> queue of seconds (oldest first)
    \* ---- requests
    pc,
    req,
    \* ---- history
    accessed,   \* <<key, maxCount>> of every counter operation performed
    recLog,     \* per scope, the times of the LPush of every record
    tbLog,      \* per scope, <<time, allowed>> of every token-bucket call
    \* ---- the in-process limiter of a second run that receives the same
    \* requests at the same times and whose handlers answer on their own
    twin

settingVars == <<RateLimitEnabled, RateLimitDurationMinutes, RateLimitCount,
                 RateLimitSuccessCount>>
policyVars == <<RateLimitGroup, RateLimitMutex, upd, got>>
ctxVars == <<RedisEnabled, tokenId, tokenGroup, userGroup, channel>>
timeVars == <<now, ticks>>
counterVars == <<rdb, bucket, store>>
reqVars == <<pc, req>>
histVars == <<accessed, recLog, tbLog>>
vars == <<settingVars, policyVars, ctxVars, timeVars, counterVars, reqVars, histVars, twin>>

\* =================================================================
\* Policy store (setting/rate_limit.go)
\* =================================================================

EmptyMap == [g \in {} |-> <<0, 0>>]

\* sync.RWMutex: RLock waits for a writer, Lock waits for readers and writer
CanRLock(s) == ~RateLimitMutex[s].writer
CanLock(s) == ~RateLimitMutex[s].writer /\ RateLimitMutex[s].readers = 0

\* the lock call of the scope's Update...ByJSONString
UpdateTakesWriteLock(s) == s # "ModelRequest"

\* limits, found := Group[group]: <<totalCount, successCount, found>>
MapLookup(m, group) ==
    IF group \in DOMAIN m THEN <<m[group][1], m[group][2], TRUE>>
    ELSE <<0, 0, FALSE>>

\* GetGroupRateLimit / GetTokenRateLimit / GetTokenDailyRateLimit
GetRateLimit(s, group) == MapLookup(RateLimitGroup[s], group)

\* the blobs of an administrative update: malformed JSON, or an object
\* { "<group>": [totalMax, successMax], ... }
OverridePairs == {<<0, 0>>, <<1, 1>>}
Blobs ==
    {[ok |-> FALSE, map |-> EmptyMap]} \cup
    {[ok |-> TRUE, map |-> m] : m \in UNION {[D -> OverridePairs] : D \in SUBSET Groups}}

nonPolicyVars == <<RateLimitEnabled, RateLimitDurationMinutes, RateLimitCount,
                   RateLimitSuccessCount, RedisEnabled, tokenId, tokenGroup, userGroup,
                   channel,
                   now, ticks, rdb, bucket, store, pc, req, accessed, recLog, tbLog, twin>>

Idle == [pc |-> "idle", scope |-> "Token", blob |-> [ok |-> TRUE, map |-> EmptyMap],
         todo |-> {}, old |-> EmptyMap, err |-> FALSE, n |-> 0]

\* Update...ByJSONString, entry: Mutex.RLock() (user scope) or Mutex.Lock()
UpdateLock(s, blob) ==
    /\ upd.pc \in {"idle", "returned"}
    /\ upd.n < MaxUpdates
    /\ IF UpdateTakesWriteLock(s)
       THEN /\ CanLock(s)
            /\ RateLimitMutex' = [RateLimitMutex EXCEPT ![s].writer = TRUE]
       ELSE /\ CanRLock(s)
            /\ RateLimitMutex' = [RateLimitMutex EXCEPT ![s].readers = @ + 1]
    /\ upd' = [pc |-> "make", scope |-> s, blob |-> blob, todo |-> {},
               old |-> RateLimitGroup[s], err |-> FALSE, n |-> upd.n + 1]
    /\ UNCHANGED <<RateLimitGroup, got, nonPolicyVars>>

\* Group = make(map[string][2]int); json.Unmarshal then checks the text
\* before it stores anything
UpdateMake ==
    /\ upd.pc = "make"
    /\ RateLimitGroup' = [RateLimitGroup EXCEPT ![upd.scope] = EmptyMap]
    /\ upd' = [upd EXCEPT !.pc = "unmarshal",
                          !.todo = IF upd.blob.ok THEN DOMAIN upd.blob.map ELSE {},
                          !.err = ~upd.blob.ok]
    /\ UNCHANGED <<RateLimitMutex, got, nonPolicyVars>>

\* json.Unmarshal stores the object's entries one at a time
UpdateStore(g) ==
    /\ upd.pc = "unmarshal"
    /\ g \in upd.todo
    /\ RateLimitGroup' = [RateLimitGroup EXCEPT ![upd.scope] =
            [h \in (DOMAIN @) \cup {g} |-> IF h = g THEN upd.blob.map[g] ELSE @[h]]]
    /\ upd' = [upd EXCEPT !.todo = @ \ {g}]
    /\ UNCHANGED <<RateLimitMutex, got, nonPolicyVars>>

\* return json.Unmarshal(...), and the deferred unlock
UpdateReturn ==
    /\ upd.pc = "unmarshal"
    /\ upd.todo = {}
    /\ RateLimitMutex' = [RateLimitMutex EXCEPT ![upd.scope] =
            IF UpdateTakesWriteLock(upd.scope)
            THEN [@ EXCEPT !.writer = FALSE]
            ELSE [@ EXCEPT !.readers = @ - 1]]
    /\ upd' = [upd EXCEPT !.pc = "returned"]
    /\ UNCHANGED <<RateLimitGroup, got, nonPolicyVars>>

\* whether an update of scope s is between its lock and its unlock
Updating(s) == upd.pc \in {"make", "unmarshal"} /\ upd.scope = s

\* the maps a lookup may read: the scope's map, and, while an update that
\* holds only the read lock is replacing it (an unsynchronised write of the
\* map variable), also the map the update found
Readable(s) ==
    {RateLimitGroup[s]} \cup
    (IF Updating(s) /\ ~UpdateTakesWriteLock(s) THEN {upd.old} ELSE {})

\* a policy lookup: RLock, read, RUnlock.  got keeps what it returned, and
\* the complete maps before and after the update it ran beside
Lookup(s, group) ==
    /\ CanRLock(s)
    /\ \E m \in Readable(s) :
       got' = [scope |-> s, group |-> group,
               result |-> MapLookup(m, group),
               old |-> IF Updating(s) THEN upd.old ELSE RateLimitGroup[s],
               new |-> IF Updating(s) /\ upd.blob.ok THEN upd.blob.map
                       ELSE IF Updating(s) THEN upd.old
                       ELSE RateLimitGroup[s],
               during |-> Updating(s),
               wellFormed |-> Updating(s) => upd.blob.ok]
    /\ UNCHANGED <<RateLimitGroup, RateLimitMutex, upd, nonPolicyVars>>

NoLookup == [scope |-> "Token", group |-> "default", result |-> <<0, 0, FALSE>>,
             old |-> EmptyMap, new |-> EmptyMap, during |-> FALSE, wellFormed |-> TRUE]

\* =================================================================
\* Counter keys (one caller, one API key: every request races on the same keys)
\* =================================================================

\* fmt.Sprintf("rateLimit:%s:%s", <success mark>, rateLimitKey)
RedisSuccessKey(s) ==
    CASE s = "Token" -> "rateLimit:TRLS:1"
      [] s = "TokenDaily" -> "rateLimit:TDRLS:1"
      [] s = "ModelRequest" -> "rateLimit:MRRLS:1"

\* the token-bucket key of the scope's total tier
RedisTotalKey(s) ==
    CASE s = "Token" -> "rateLimit:TRL:1"
      [] s = "TokenDaily" -> "rateLimit:TDRL:1"
      [] s = "ModelRequest" -> "rateLimit:1"

\* <count mark> + rateLimitKey
MemTotalKey(s) ==
    CASE s = "Token" -> "TRL1"
      [] s = "TokenDaily" -> "TDRL1"
      [] s = "ModelRequest" -> "MRRL1"

\* <success mark> + rateLimitKey
MemSuccessKey(s) ==
    CASE s = "Token" -> "TRLS1"
      [] s = "TokenDaily" -> "TDRLS1"
      [] s = "ModelRequest" -> "MRRLS1"

MemCheckKey_mut(s) == MemSuccessKey(s)

\* checkKey := successKey + "_check"
MemCheckKey(s) ==
    CASE s = "Token" -> "TRLS1_check"
      [] s = "TokenDaily" -> "TDRLS1_check"
      [] s = "ModelRequest" -> "MRRLS1_check"

RedisListKeys == {RedisSuccessKey(s) : s \in Scopes}
RedisBucketKeys == {RedisTotalKey(s) : s \in Scopes}
MemKeys == {MemTotalKey(s) : s \in Scopes} \cup {MemSuccessKey(s) : s \in Scopes}
             \cup {MemCheckKey(s) : s \in Scopes}

\* =================================================================
\* Policy resolution of a tier
\* =================================================================

\* the window of the scope's policy, in seconds
DurationSeconds(s) ==
    CASE s = "Token" -> RateLimitDurationMinutes["Token"] * MinuteSeconds
      [] s = "TokenDaily" -> DaySeconds
      [] s = "ModelRequest" -> RateLimitDurationMinutes["ModelRequest"] * MinuteSeconds

\* the group label a scope resolves its policy by
ScopeGroup(s) == IF s = "ModelRequest" THEN userGroup ELSE tokenGroup

ResolveLimits_mut(s) == <<RateLimitCount[s], RateLimitSuccessCount[s]>>

\* totalMaxCount, successMaxCount := defaults; if found { both = the group's }
ResolveLimits(s) ==
    LET g == GetRateLimit(s, ScopeGroup(s))
    IN  IF g[3] THEN <<g[1], g[2]>>
        ELSE <<RateLimitCount[s], RateLimitSuccessCount[s]>>

\* successMaxCount of the record functions: default, or the group's
ResolveSuccess(s) ==
    LET g == GetRateLimit(s, ScopeGroup(s))
    IN  IF g[3] THEN g[2] ELSE RateLimitSuccessCount[s]

\* rdb.Expire(ctx, key, time.Duration(setting.ModelRequestRateLimitDurationMinutes)*time.Minute)
ExpireSeconds == RateLimitDurationMinutes["ModelRequest"] * MinuteSeconds

\* =================================================================
\* Shared backend: lists with expiry
\* =================================================================

NoExpiry == -1
NoKey == [list |-> <<>>, expireAt |-> NoExpiry]

\* the backend drops a key once its expiry is reached
Purge(db, t) ==
    [k \in DOMAIN db |->
        IF db[k].expireAt # NoExpiry /\ db[k].expireAt <= t THEN NoKey ELSE db[k]]

\* LLEN key
LLen(k) == Len(rdb[k].list)

\* LPUSH key v: a new key has no expiry
LPushed(e, v) == [e EXCEPT !.list = <<v>> \o @]

\* LTRIM key 0 stop: an emptied list is deleted
LTrimmed(e, stop) ==
    IF stop < 0 THEN NoKey
    ELSE [e EXCEPT !.list = SubSeq(@, 1, Min2(Len(@), stop + 1))]

\* EXPIRE key seconds: nothing on a missing key
Expired(e, t, seconds) ==
    IF e.list = <<>> THEN e ELSE [e EXCEPT !.expireAt = t + seconds]

\* if int64(subTime) < duration: the window has not rolled over
WindowOpen(oldTime, t, duration) == t - oldTime < duration

\* the key keeps no event, or its oldest kept event is d seconds old
OldestElapsed(l, t, d) == l = <<>> \/ ~WindowOpen(l[Len(l)], t, d)

\* =================================================================
\* Shared backend: token bucket (limiter.Allow)
\* =================================================================

\* limiter.WithCapacity(int64(totalMaxCount)*duration)
TBCapacity(totalMaxCount, duration) == totalMaxCount * duration
\* limiter.WithRate(int64(totalMaxCount))
TBRate(totalMaxCount) == totalMaxCount
TBRequested_mut(duration) == 1
\* limiter.WithRequested(duration)
TBRequested(duration) == duration

NoBucket == [init |-> FALSE, tokens |-> 0, last |-> 0]

\* the atomic read-refill-compare-consume of the backend: a new bucket is full
Allow(b, capacity, rate, requested, t) ==
    LET cur == IF b.init THEN Min2(capacity, b.tokens + (t - b.last) * rate)
               ELSE capacity
        ok == cur >= requested
    IN  [allowed |-> ok,
         b |-> [init |-> TRUE, tokens |-> IF ok THEN cur - requested ELSE cur,
                last |-> t]]

\* =================================================================
\* In-process limiter (inMemoryRateLimiter.Request)
\* =================================================================

\* check and record in one call: admit and count while fewer than
\* maxRequestNum occurrences are kept, or when the oldest has left the window
Request(q, maxRequestNum, duration, t) ==
    IF Len(q) < maxRequestNum
    THEN [ok |-> TRUE, q |-> Append(q, t)]
    ELSE IF q # <<>> /\ t - Head(q) >= duration
         THEN [ok |-> TRUE, q |-> Append(Tail(q), t)]
         ELSE [ok |-> FALSE, q |-> q]

\* =================================================================
\* Requests (ModelRequestRateLimit and the handlers it runs)
\* =================================================================

SubTiers == Scopes \X {"success", "total"}

\* the window a message states, in minutes: the day of the daily wording
DayMinutes == DaySeconds \div MinuteSeconds

\* what a response tells the caller: whether it has a body, the scope word,
\* the window in minutes and the limit its text states (-1: not stated)
NoMessage == [body |-> FALSE, scope |-> "none", window |-> -1, limit |-> -1]

\* "rate_limit_check_failed"
ErrorMessage == [body |-> TRUE, scope |-> "none", window |-> -1, limit |-> -1]

\* the text of a throttling rejection of scope s for a sub-tier whose limit
\* is maxCount: the key-minute texts name the key, the minutes and the
\* count; the user texts the minutes and the count; the daily texts name
\* the day only; memoryRateLimitHandler writes the status alone
ThrottleMessage(s, maxCount) ==
    CASE s = "Token" ->
           [body |-> TRUE, scope |-> "key",
            window |-> RateLimitDurationMinutes["Token"], limit |-> maxCount]
      [] s = "TokenDaily" ->
           [body |-> TRUE, scope |-> "none", window |-> DayMinutes, limit |-> -1]
      [] s = "ModelRequest" ->
           IF RedisEnabled
           THEN [body |-> TRUE, scope |-> "none",
                 window |-> RateLimitDurationMinutes["ModelRequest"], limit |-> maxCount]
           ELSE NoMessage

\* a request at entry: gin's response status is 200 until something writes one
NewReq ==
    [scope |-> "Token", total |-> 0, success |-> 0, duration |-> 0,
     userOn |-> FALSE, aborted |-> FALSE, status |-> StatusOK,
     ran |-> FALSE, failed |-> FALSE, issuedElapsed |-> FALSE,
     cancelled |-> FALSE, msg |-> NoMessage,
     out |-> [t \in SubTiers |-> "none"],
     lim |-> [s \in Scopes |-> <<-1, -1>>],
     rec |-> [s \in Scopes |-> -1],
     order |-> <<>>]

\* what the protected handler may answer
HandlerStatuses == {StatusOK, StatusInternalServerError}

Arrived(q) == pc[q] # "check" \/ req[q].scope # "Token"

\* the check that follows scope s in ModelRequestRateLimit
AfterTier(s) ==
    CASE s = "Token" -> [pc |-> "check", scope |-> "TokenDaily"]
      [] s = "TokenDaily" -> [pc |-> "check", scope |-> "ModelRequest"]
      [] s = "ModelRequest" -> [pc |-> "handler", scope |-> "ModelRequest"]

\* the record that follows the record of scope s: the user handler records
\* first, then recordTokenRateLimitSuccess, then recordTokenDailySuccess
AfterRecord(s) ==
    CASE s = "ModelRequest" -> [pc |-> "record", scope |-> "Token"]
      [] s = "Token" -> [pc |-> "record", scope |-> "TokenDaily"]
      [] s = "TokenDaily" -> [pc |-> "done", scope |-> "TokenDaily"]

\* the first tier call of a scope
CheckPc == IF RedisEnabled THEN "success" ELSE "memTotal"

\* if err != nil { abort 500; return }  if !allowed { abort 429; return }
AfterSuccessCheck(allowed, err) == IF err \/ ~allowed THEN "done" ELSE "total"

\* the total tier's rejection: the key tiers return false; the user handler
\* aborts and falls through to c.Next()
AfterTotalReject(s) == IF s = "ModelRequest" THEN "handler" ELSE "done"

NextRunsHandler_mut(aborted) == TRUE
\* c.Next() runs the remaining handlers unless the context was aborted
NextRunsHandler(aborted) == ~aborted

RecordsSuccess_mut(status) == TRUE
\* if c.Writer.Status() < 400 { record }
RecordsSuccess(status) == status < ErrorStatusFloor

\* abortWithOpenAiMessage(c, status, message): writes the status and the
\* message, and aborts
Aborted(q, status, sub, verdict, failed) ==
    [q EXCEPT !.aborted = TRUE, !.status = status,
              !.out[<<q.scope, sub>>] = verdict, !.failed = failed,
              !.msg = IF verdict = "reject"
                      THEN ThrottleMessage(q.scope,
                                           IF sub = "success" THEN q.success ELSE q.total)
                      ELSE ErrorMessage]

Admitted(q, sub) == [q EXCEPT !.out[<<q.scope, sub>>] = "admit"]

To(q, target) == [q EXCEPT !.scope = target.scope]

\* checkTokenRateLimit / checkTokenDailyRateLimit up to the backend branch,
\* and ModelRequestRateLimit's resolution of the user tier
resolveTier(r) ==
    /\ pc[r] = "check"
    /\ (r > 1) => Arrived(r - 1)
    /\ LET s == req[r].scope
           lim == ResolveLimits(s)
           resolved == [req[r] EXCEPT !.total = lim[1], !.success = lim[2],
                                      !.duration = DurationSeconds(s),
                                      !.lim[s] = lim]
       IN  IF s \in TokenScopes
           THEN IF ~RateLimitEnabled[s] \/ tokenId = 0
                THEN /\ pc' = [pc EXCEPT ![r] = AfterTier(s).pc]
                     /\ req' = [req EXCEPT ![r] = To(@, AfterTier(s))]
                ELSE /\ CanRLock(s)
                     /\ IF lim = <<0, 0>>
                        THEN /\ pc' = [pc EXCEPT ![r] = AfterTier(s).pc]
                             /\ req' = [req EXCEPT ![r] = To(resolved, AfterTier(s))]
                        ELSE /\ pc' = [pc EXCEPT ![r] = CheckPc]
                             /\ req' = [req EXCEPT ![r] = resolved]
           ELSE IF ~RateLimitEnabled[s]
                THEN /\ pc' = [pc EXCEPT ![r] = "handler"]
                     /\ UNCHANGED req
                ELSE /\ CanRLock(s)
                     /\ pc' = [pc EXCEPT ![r] = CheckPc]
                     /\ req' = [req EXCEPT ![r] = [resolved EXCEPT !.userOn = TRUE]]
    /\ UNCHANGED <<twin, settingVars, policyVars, ctxVars, timeVars, counterVars, histVars>>

\* checkRedisRateLimit up to the length read (the key tiers call it only
\* when successMaxCount > 0; with maxCount = 0 it returns true at once)
checkRedisRateLimit_LLen(r) ==
    /\ pc[r] = "success"
    /\ LET s == req[r].scope
           k == RedisSuccessKey(s)
           maxCount == req[r].success
       IN  IF maxCount = 0
           THEN /\ pc' = [pc EXCEPT ![r] = "total"]
                /\ UNCHANGED <<req, accessed>>
           ELSE /\ accessed' = accessed \cup {<<k, maxCount>>}
                /\ \E fail \in BOOLEAN :
                     IF fail
                     THEN /\ pc' = [pc EXCEPT ![r] = AfterSuccessCheck(FALSE, TRUE)]
                          /\ req' = [req EXCEPT ![r] =
                                Aborted(@, StatusInternalServerError, "success", "error", TRUE)]
                     ELSE IF LLen(k) < maxCount
                          THEN /\ pc' = [pc EXCEPT ![r] = AfterSuccessCheck(TRUE, FALSE)]
                               /\ req' = [req EXCEPT ![r] = Admitted(@, "success")]
                          ELSE /\ pc' = [pc EXCEPT ![r] = "LIndex"]
                               /\ req' = [req EXCEPT ![r].issuedElapsed =
                                     OldestElapsed(rdb[k].list, now, req[r].duration)]
    /\ UNCHANGED <<twin, settingVars, policyVars, ctxVars, timeVars, counterVars, recLog, tbLog>>

\* checkRedisRateLimit from the oldest-entry read: the error of LIndex is
\* dropped, and time.Parse fails on the empty string of a missing entry; the
\* result of the Expire of the rejecting branch is not read
checkRedisRateLimit_LIndex(r) ==
    /\ pc[r] = "LIndex"
    /\ LET s == req[r].scope
           k == RedisSuccessKey(s)
           l == rdb[k].list
       IN  /\ accessed' = accessed \cup {<<k, req[r].success>>}
           /\ \E fail \in BOOLEAN :
                IF fail \/ l = <<>>
                THEN /\ pc' = [pc EXCEPT ![r] = AfterSuccessCheck(FALSE, TRUE)]
                     /\ req' = [req EXCEPT ![r] =
                           Aborted(@, StatusInternalServerError, "success", "error", fail)]
                     /\ UNCHANGED rdb
                ELSE IF WindowOpen(l[Len(l)], now, req[r].duration)
                     THEN \E expireFails \in BOOLEAN :
                          /\ rdb' = IF expireFails THEN rdb
                                    ELSE [rdb EXCEPT ![k] = Expired(@, now, ExpireSeconds)]
                          /\ pc' = [pc EXCEPT ![r] = AfterSuccessCheck(FALSE, FALSE)]
                          /\ req' = [req EXCEPT ![r] =
                                Aborted(@, StatusTooManyRequests, "success", "reject",
                                        expireFails)]
                     ELSE /\ pc' = [pc EXCEPT ![r] = AfterSuccessCheck(TRUE, FALSE)]
                          /\ req' = [req EXCEPT ![r] = Admitted(@, "success")]
                          /\ UNCHANGED rdb
    /\ UNCHANGED <<twin, settingVars, policyVars, ctxVars, timeVars, bucket, store, recLog, tbLog>>

\* the total tier on the shared backend: if totalMaxCount > 0 { tb.Allow(...) }
tbAllow(r) ==
    /\ pc[r] = "total"
    /\ LET s == req[r].scope
           k == RedisTotalKey(s)
           a == Allow(bucket[k], TBCapacity(req[r].total, req[r].duration),
                      TBRate(req[r].total), TBRequested(req[r].duration), now)
       IN  IF req[r].total = 0
           THEN /\ pc' = [pc EXCEPT ![r] = AfterTier(s).pc]
                /\ req' = [req EXCEPT ![r] = To(@, AfterTier(s))]
                /\ UNCHANGED <<bucket, accessed, tbLog>>
           ELSE /\ accessed' = accessed \cup {<<k, req[r].total>>}
                /\ \E fail \in BOOLEAN :
                     IF fail
                     THEN /\ pc' = [pc EXCEPT ![r] = "done"]
                          /\ req' = [req EXCEPT ![r] =
                                Aborted(@, StatusInternalServerError, "total", "error", TRUE)]
                          /\ UNCHANGED <<bucket, tbLog>>
                     ELSE /\ bucket' = [bucket EXCEPT ![k] = a.b]
                          /\ tbLog' = [tbLog EXCEPT ![s] = Append(@, <<now, a.allowed>>)]
                          /\ IF a.allowed
                             THEN /\ pc' = [pc EXCEPT ![r] = AfterTier(s).pc]
                                  /\ req' = [req EXCEPT ![r] =
                                        To(Admitted(@, "total"), AfterTier(s))]
                             ELSE /\ pc' = [pc EXCEPT ![r] = AfterTotalReject(s)]
                                  /\ req' = [req EXCEPT ![r] =
                                        Aborted(@, StatusTooManyRequests, "total", "reject", FALSE)]
    /\ UNCHANGED <<twin, settingVars, policyVars, ctxVars, timeVars, rdb, store, recLog>>

\* ---- the second run of the in-process path

\* no second run
NoTwin == [on |-> FALSE, store |-> <<>>, out |-> <<>>, status |-> <<>>]

\* the second run at entry
NewTwin ==
    [on |-> TRUE, store |-> [k \in MemKeys |-> <<>>],
     out |-> [r \in Reqs |-> [t \in SubTiers |-> "none"]],
     status |-> [r \in Reqs |-> StatusOK]]

\* the second run after request r's check of sub-tier sub on key k
TwinChecked(r, sub, k, maxCount) ==
    IF ~twin.on THEN twin
    ELSE LET a == Request(twin.store[k], maxCount, req[r].duration, now)
         IN  [twin EXCEPT !.store[k] = a.q,
                          !.out[r][<<req[r].scope, sub>>] =
                              IF a.ok THEN "admit" ELSE "reject"]

\* whether request r records on the success key of scope s after a
\* successful handler, and with which limit: the user handler with the
\* limit it checked with, the key tiers after resolving their policy again
TwinRecords(r, s) ==
    IF s = "ModelRequest" THEN req[r].userOn
    ELSE RateLimitEnabled[s] /\ tokenId # 0 /\ ResolveSuccess(s) # 0

TwinRecordLimit(r, s) ==
    IF s = "ModelRequest" THEN req[r].lim[s][2] ELSE ResolveSuccess(s)

\* the second run's store after the records of request r
RecordAll(st, r) ==
    [k \in DOMAIN st |->
        IF \E s \in Scopes : k = MemSuccessKey(s) /\ TwinRecords(r, s)
        THEN LET s == CHOOSE x \in Scopes : k = MemSuccessKey(x)
             IN  Request(st[k], TwinRecordLimit(r, s), DurationSeconds(s), now).q
        ELSE st[k]]

\* the second run after its handler answered st2 to request r
TwinHandled(r, st2) ==
    IF ~twin.on \/ ~NextRunsHandler(req[r].aborted) THEN twin
    ELSE [twin EXCEPT !.status[r] = st2,
                      !.store = IF RecordsSuccess(st2) THEN RecordAll(@, r) ELSE @]

\* the total tier of the in-process path:
\* if totalMaxCount > 0 && !inMemoryRateLimiter.Request(totalKey, ...) { abort }
memoryTotalCheck(r) ==
    /\ pc[r] = "memTotal"
    /\ LET s == req[r].scope
           k == MemTotalKey(s)
           a == Request(store[k], req[r].total, req[r].duration, now)
       IN  IF req[r].total = 0
           THEN /\ pc' = [pc EXCEPT ![r] = "memSuccess"]
                /\ UNCHANGED <<req, store, accessed, twin>>
           ELSE /\ accessed' = accessed \cup {<<k, req[r].total>>}
                /\ store' = [store EXCEPT ![k] = a.q]
                /\ twin' = TwinChecked(r, "total", k, req[r].total)
                /\ IF a.ok
                   THEN /\ pc' = [pc EXCEPT ![r] = "memSuccess"]
                        /\ req' = [req EXCEPT ![r] = Admitted(@, "total")]
                   ELSE /\ pc' = [pc EXCEPT ![r] = "done"]
                        /\ req' = [req EXCEPT ![r] =
                              Aborted(@, StatusTooManyRequests, "total", "reject", FALSE)]
    /\ UNCHANGED <<settingVars, policyVars, ctxVars, timeVars, rdb, bucket, recLog, tbLog>>

\* whether the in-process success check of scope s calls the limiter: the key
\* tiers guard it with successMaxCount > 0, memoryRateLimitHandler does not
MemoryChecksSuccess(s, successMaxCount) == s = "ModelRequest" \/ successMaxCount > 0

\* the success tier of the in-process path, on the probe key
memorySuccessCheck(r) ==
    /\ pc[r] = "memSuccess"
    /\ LET s == req[r].scope
           k == MemCheckKey(s)
           a == Request(store[k], req[r].success, req[r].duration, now)
       IN  IF ~MemoryChecksSuccess(s, req[r].success)
           THEN /\ pc' = [pc EXCEPT ![r] = AfterTier(s).pc]
                /\ req' = [req EXCEPT ![r] = To(@, AfterTier(s))]
                /\ UNCHANGED <<store, accessed, twin>>
           ELSE /\ accessed' = accessed \cup {<<k, req[r].success>>}
                /\ store' = [store EXCEPT ![k] = a.q]
                /\ twin' = TwinChecked(r, "success", k, req[r].success)
                /\ IF a.ok
                   THEN /\ pc' = [pc EXCEPT ![r] = AfterTier(s).pc]
                        /\ req' = [req EXCEPT ![r] =
                              To(Admitted(@, "success"), AfterTier(s))]
                   ELSE /\ pc' = [pc EXCEPT ![r] = "done"]
                        /\ req' = [req EXCEPT ![r] =
                              Aborted(@, StatusTooManyRequests, "success", "reject", FALSE)]
    /\ UNCHANGED <<settingVars, policyVars, ctxVars, timeVars, rdb, bucket, recLog, tbLog>>

\* the response status after a handler that answered st, or that returned
\* on a cancelled request without writing one
StatusAfter(status, st, cancelled) == IF cancelled THEN status ELSE st

\* c.Next(), then the status test that guards every record
cNext(r) ==
    /\ pc[r] = "handler"
    /\ \E st \in HandlerStatuses, cancelled \in BOOLEAN :
         /\ cancelled => (st = StatusOK /\ NextRunsHandler(req[r].aborted))
         /\ LET q == IF NextRunsHandler(req[r].aborted)
                     THEN [req[r] EXCEPT !.ran = TRUE, !.cancelled = cancelled,
                                         !.status = StatusAfter(@, st, cancelled)]
                     ELSE req[r]
                first == IF q.userOn THEN "ModelRequest" ELSE "Token"
            IN  IF RecordsSuccess(q.status)
                THEN /\ pc' = [pc EXCEPT ![r] = "record"]
                     /\ req' = [req EXCEPT ![r] = [q EXCEPT !.scope = first]]
                ELSE /\ pc' = [pc EXCEPT ![r] = "done"]
                     /\ req' = [req EXCEPT ![r] = q]
    /\ \E st2 \in HandlerStatuses : twin' = TwinHandled(r, st2)
    /\ UNCHANGED <<settingVars, policyVars, ctxVars, timeVars, counterVars, histVars>>

\* the record of one scope, up to its first counter call: the user handler
\* records with the limit it checked with; recordTokenRateLimitSuccess and
\* recordTokenDailySuccess read the policy again
recordSuccess(r) ==
    /\ pc[r] = "record"
    /\ LET s == req[r].scope
           maxCount == IF s = "ModelRequest" THEN req[r].success ELSE ResolveSuccess(s)
           recPc == IF RedisEnabled THEN "LPush" ELSE "memRecord"
           armed == [req[r] EXCEPT !.success = maxCount, !.duration = DurationSeconds(s),
                                   !.rec[s] = maxCount, !.order = Append(@, s)]
       IN  IF s \in TokenScopes /\ (~RateLimitEnabled[s] \/ tokenId = 0)
           THEN /\ pc' = [pc EXCEPT ![r] = AfterRecord(s).pc]
                /\ req' = [req EXCEPT ![r] = To(@, AfterRecord(s))]
           ELSE /\ (s \in TokenScopes) => CanRLock(s)
                /\ IF maxCount = 0 /\ (RedisEnabled \/ s \in TokenScopes)
                   THEN /\ pc' = [pc EXCEPT ![r] = AfterRecord(s).pc]
                        /\ req' = [req EXCEPT ![r] = To(@, AfterRecord(s))]
                   ELSE /\ pc' = [pc EXCEPT ![r] = recPc]
                        /\ req' = [req EXCEPT ![r] = armed]
    /\ UNCHANGED <<twin, settingVars, policyVars, ctxVars, timeVars, counterVars, histVars>>

\* recordRedisRequest: rdb.LPush(ctx, key, now)
recordRedisRequest_LPush(r) ==
    /\ pc[r] = "LPush"
    /\ LET s == req[r].scope
           k == RedisSuccessKey(s)
       IN  /\ rdb' = [rdb EXCEPT ![k] = LPushed(@, now)]
           /\ recLog' = [recLog EXCEPT ![s] = Append(@, now)]
           /\ accessed' = accessed \cup {<<k, req[r].success>>}
    /\ pc' = [pc EXCEPT ![r] = "LTrim"]
    /\ UNCHANGED <<twin, settingVars, policyVars, ctxVars, timeVars, bucket, store, req, tbLog>>

\* recordRedisRequest: rdb.LTrim(ctx, key, 0, int64(maxCount-1))
recordRedisRequest_LTrim(r) ==
    /\ pc[r] = "LTrim"
    /\ LET k == RedisSuccessKey(req[r].scope)
       IN  rdb' = [rdb EXCEPT ![k] = LTrimmed(@, req[r].success - 1)]
    /\ pc' = [pc EXCEPT ![r] = "Expire"]
    /\ UNCHANGED <<twin, settingVars, policyVars, ctxVars, timeVars, bucket, store, req, histVars>>

\* recordRedisRequest: rdb.Expire(ctx, key, ...)
recordRedisRequest_Expire(r) ==
    /\ pc[r] = "Expire"
    /\ LET s == req[r].scope
           k == RedisSuccessKey(s)
       IN  /\ rdb' = [rdb EXCEPT ![k] = Expired(@, now, ExpireSeconds)]
           /\ pc' = [pc EXCEPT ![r] = AfterRecord(s).pc]
           /\ req' = [req EXCEPT ![r] = To(@, AfterRecord(s))]
    /\ UNCHANGED <<twin, settingVars, policyVars, ctxVars, timeVars, bucket, store, histVars>>

\* the record of the in-process path:
\* inMemoryRateLimiter.Request(successKey, successMaxCount, duration)
memoryRecord(r) ==
    /\ pc[r] = "memRecord"
    /\ LET s == req[r].scope
           k == MemSuccessKey(s)
           a == Request(store[k], req[r].success, req[r].duration, now)
       IN  /\ store' = [store EXCEPT ![k] = a.q]
           /\ accessed' = accessed \cup {<<k, req[r].success>>}
           /\ pc' = [pc EXCEPT ![r] = AfterRecord(s).pc]
           /\ req' = [req EXCEPT ![r] = To(@, AfterRecord(s))]
    /\ UNCHANGED <<twin, settingVars, policyVars, ctxVars, timeVars, rdb, bucket, recLog, tbLog>>

\* =================================================================
\* Channel gatekeeper (ShouldDisableChannel)
\* =================================================================

\* An error message is a sequence of words; a phrase occurs in it when its
\* words occur in it side by side.

\* strings.ToLower, word by word
ToLower(w) ==
    CASE w = "Timeout" -> "timeout"
      [] w = "DEADLINE" -> "deadline"
      [] w = "Connect" -> "connect"
      [] OTHER -> w

LowerAll(msg) == [i \in 1..Len(msg) |-> ToLower(msg[i])]

\* strings.Contains(errMsg, phrase)
Contains(msg, phrase) ==
    \E i \in 0..(Len(msg) - Len(phrase)) :
        \A j \in 1..Len(phrase) : msg[i + j] = phrase[j]

\* the phrases of the transient test, in the order of the condition
TransientPhrases ==
    { <<"no", "candidates", "returned">>, <<"deadline", "exceeded">>, <<"timeout">>,
      <<"connect">>, <<"do", "request", "failed">>, <<"provider", "returned", "error">>,
      <<"internal", "server", "error">>, <<"no", "response", "received">> }

\* err == nil
NoError == [present |-> FALSE, msg |-> <<>>, status |-> 0, type |-> "none"]

ShouldDisableChannel_mut(enabled, err) ==
    IF ~enabled THEN FALSE
    ELSE IF ~err.present THEN FALSE
    ELSE IF \E ph \in TransientPhrases : Contains(LowerAll(err.msg), ph) THEN FALSE
    ELSE IF err.status = 401 THEN TRUE
    ELSE IF err.status = 403 THEN TRUE
    ELSE IF err.type = "insufficient_quota" THEN TRUE
    ELSE FALSE

\* ShouldDisableChannel(channelId, err), with
\* enabled = common.AutomaticDisableChannelEnabled
ShouldDisableChannel(enabled, err) ==
    IF ~enabled THEN FALSE
    ELSE IF ~err.present THEN FALSE
    ELSE IF \E ph \in TransientPhrases : Contains(LowerAll(err.msg), ph) THEN FALSE
    ELSE IF err.status = 401 THEN TRUE
    ELSE IF err.status = 429 THEN FALSE
    ELSE IF err.status = 403 THEN TRUE
    ELSE IF err.type = "insufficient_quota" THEN TRUE
    ELSE FALSE

\* no call of the gatekeeper
NoChannelCall == [enabled |-> FALSE, err |-> NoError, called |-> FALSE, result |-> FALSE]

\* the words, status codes and error types of the upstream errors
Words == {"Timeout", "timeout", "DEADLINE", "exceeded", "connect", "no", "response",
          "received", "invalid", "key"}
ErrorStatuses == {401, 403, 429, 500}
ErrorTypes == {"insufficient_quota", "upstream_error"}
Messages == UNION {[1..n -> Words] : n \in 0..MaxWords}
ChannelErrors ==
    {NoError} \cup
    {[present |-> TRUE, msg |-> m, status |-> st, type |-> ty] :
        m \in Messages, st \in ErrorStatuses, ty \in ErrorTypes}

\* a relay error reaches the gatekeeper
CheckChannel ==
    /\ ~channel.called
    /\ channel' = [channel EXCEPT !.called = TRUE,
                                   !.result = ShouldDisableChannel(channel.enabled, channel.err)]
    /\ UNCHANGED <<settingVars, policyVars, RedisEnabled, tokenId, tokenGroup, userGroup,
                   timeVars, counterVars, reqVars, histVars, twin>>

\* =================================================================
\* Time
\* =================================================================

\* the clock advances by half a minute, a minute, and, where a daily policy
\* is enabled, by half a day and a day; the backend drops the keys whose
\* expiry is reached
TickSteps ==
    {MinuteSeconds \div 2, MinuteSeconds} \cup
    (IF RateLimitEnabled["TokenDaily"] THEN {DaySeconds \div 2, DaySeconds} ELSE {})

Advance(d) ==
    /\ now' = now + d
    /\ ticks' = ticks + 1
    /\ rdb' = Purge(rdb, now + d)
    /\ UNCHANGED <<twin, settingVars, policyVars, ctxVars, bucket, store, reqVars, histVars>>

Tick ==
    /\ ticks < MaxTicks
    /\ \E d \in TickSteps : Advance(d)

\* =================================================================
\* Configurations and initial states
\* =================================================================

\* a value per scope: key-minute, key-daily, user
SC(t, d, m) ==
    [s \in Scopes |-> CASE s = "Token" -> t [] s = "TokenDaily" -> d [] OTHER -> m]

Only(s) == [x \in Scopes |-> x = s]
NoGroups == [s \in Scopes |-> EmptyMap]
OneGroup(s, g, pair) == [x \in Scopes |-> IF x = s THEN [h \in {g} |-> pair] ELSE EmptyMap]

\* the policy of one tier: default limits <<total, success>>, and the
\* override of the request's group, if any
PolicyVariants ==
    { [def |-> <<0, 1>>, ov |-> <<>>],
      [def |-> <<1, 2>>, ov |-> <<>>],
      [def |-> <<1, 0>>, ov |-> <<>>],
      [def |-> <<2, 1>>, ov |-> <<>>],
      [def |-> <<2, 2>>, ov |-> <<<<1, 1>>>>],
      [def |-> <<1, 1>>, ov |-> <<<<0, 0>>>>] }

\* <<ModelRequestRateLimitDurationMinutes, TokenRateLimitDurationMinutes>>
DurationVariants == {<<1, 1>>, <<2, 1>>}

\* deployments with one tier enabled; the user window differs from the
\* key-minute window in deployments of the key-minute tier
SingleTierConfigs ==
    { c \in
    { [redis |-> rd, en |-> Only(s), modelD |-> dv[1], tokenD |-> dv[2],
       cnt |-> [x \in Scopes |-> IF x = s THEN v.def[1] ELSE 0],
       suc |-> [x \in Scopes |-> IF x = s THEN v.def[2] ELSE 0],
       grp |-> IF v.ov = <<>> THEN NoGroups ELSE OneGroup(s, "vip", v.ov[1]),
       tid |-> 1, tg |-> "vip", ug |-> "vip"] :
      rd \in BOOLEAN, s \in Scopes, v \in PolicyVariants, dv \in DurationVariants } :
      c.modelD = c.tokenD \/ c.en["Token"] }

\* deployments with the three tiers enabled: a key of group vip of a user of
\* group default, and a request that carries no key
AllTierConfigs ==
    { [redis |-> rd, en |-> SC(TRUE, TRUE, TRUE), modelD |-> 1, tokenD |-> 1,
       cnt |-> SC(0, 0, 1), suc |-> SC(2, 1, 2),
       grp |-> [x \in Scopes |->
                  CASE x = "Token" -> [h \in {"vip"} |-> <<1, 1>>]
                    [] x = "TokenDaily" -> EmptyMap
                    [] OTHER -> [h \in {"vip"} |-> <<0, 0>>]],
       tid |-> t, tg |-> "vip", ug |-> "default"] :
      rd \in BOOLEAN, t \in {0, 1} }

OrchConfigs == SingleTierConfigs \cup AllTierConfigs

\* the state of a fresh deployment under configuration c, with n requests
InitWith(c, n) ==
    /\ RateLimitEnabled = c.en
    /\ RateLimitDurationMinutes = [s \in {"ModelRequest", "Token"} |->
                                     IF s = "Token" THEN c.tokenD ELSE c.modelD]
    /\ RateLimitCount = c.cnt
    /\ RateLimitSuccessCount = c.suc
    /\ RateLimitGroup = c.grp
    /\ RateLimitMutex = [s \in Scopes |-> [readers |-> 0, writer |-> FALSE]]
    /\ upd = Idle
    /\ got = NoLookup
    /\ RedisEnabled = c.redis
    /\ tokenId = c.tid
    /\ tokenGroup = c.tg
    /\ userGroup = c.ug
    /\ now = 0
    /\ ticks = 0
    /\ rdb = [k \in RedisListKeys |-> NoKey]
    /\ bucket = [k \in RedisBucketKeys |-> NoBucket]
    /\ store = [k \in MemKeys |-> <<>>]
    /\ pc = [r \in Reqs |-> IF r <= n THEN "check" ELSE "done"]
    /\ req = [r \in Reqs |-> NewReq]
    /\ accessed = {}
    /\ recLog = [s \in Scopes |-> <<>>]
    /\ tbLog = [s \in Scopes |-> <<>>]

Init == twin = NoTwin /\ channel = NoChannelCall /\ \E c \in OrchConfigs : InitWith(c, NumReqs)

Next ==
    \/ Tick
    \/ \E r \in Reqs :
         \/ resolveTier(r)
         \/ checkRedisRateLimit_LLen(r)
         \/ checkRedisRateLimit_LIndex(r)
         \/ tbAllow(r)
         \/ memoryTotalCheck(r)
         \/ memorySuccessCheck(r)
         \/ cNext(r)
         \/ recordSuccess(r)
         \/ recordRedisRequest_LPush(r)
         \/ recordRedisRequest_LTrim(r)
         \/ recordRedisRequest_Expire(r)
         \/ memoryRecord(r)

Spec == Init /\ [][Next]_vars

\* ---- the policy store alone: updates of the three scopes beside lookups

\* the override maps an update may find in place
InitialMaps == {EmptyMap, [g \in Groups |-> <<1, 1>>]}

PolicyConfig(m) ==
    [redis |-> TRUE, en |-> SC(TRUE, TRUE, TRUE), modelD |-> 1, tokenD |-> 1,
     cnt |-> SC(2, 2, 2), suc |-> SC(2, 2, 2), grp |-> [s \in Scopes |-> m],
     tid |-> 1, tg |-> "vip", ug |-> "default"]

InitPolicy == twin = NoTwin /\ channel = NoChannelCall /\ \E m \in InitialMaps : InitWith(PolicyConfig(m), 0)

NextPolicy ==
    \/ \E s \in Scopes, blob \in Blobs : UpdateLock(s, blob)
    \/ UpdateMake
    \/ \E g \in Groups : UpdateStore(g)
    \/ UpdateReturn
    \/ \E s \in Scopes, g \in Groups : Lookup(s, g)

SpecPolicy == InitPolicy /\ [][NextPolicy]_vars

\* ---- the total tier alone: one scope enabled with a total limit and no
\* success limit, on the shared backend

BucketLimits == {1, 2}

BucketConfigs ==
    { [redis |-> TRUE, en |-> Only(s), modelD |-> 1, tokenD |-> 1,
       cnt |-> [x \in Scopes |-> IF x = s THEN k ELSE 0],
       suc |-> SC(0, 0, 0), grp |-> NoGroups,
       tid |-> 1, tg |-> "vip", ug |-> "vip"] :
      s \in Scopes, k \in BucketLimits }

InitBucket == twin = NoTwin /\ channel = NoChannelCall /\ \E c \in BucketConfigs : InitWith(c, BucketReqs)

\* the scope the configuration enables, and its total limit
BucketScope == CHOOSE s \in Scopes : RateLimitEnabled[s]
BucketLimit == RateLimitCount[BucketScope]

\* the clock advances by durationSeconds / maxCount, or by half of it
BucketTick ==
    /\ ticks < BucketTicks
    /\ \E d \in {DurationSeconds(BucketScope) \div BucketLimit,
                 DurationSeconds(BucketScope) \div (2 * BucketLimit)} : Advance(d)

NextBucket ==
    \/ BucketTick
    \/ \E r \in Reqs :
         \/ resolveTier(r)
         \/ checkRedisRateLimit_LLen(r)
         \/ tbAllow(r)
         \/ cNext(r)
         \/ recordSuccess(r)

SpecBucket == InitBucket /\ [][NextBucket]_vars

\* ---- one request with an API key through the three tiers, beside
\* administrative updates of the override maps.  The request finds fresh
\* keys, so its success check ends at the length read.

AdminConfigs == {c \in AllTierConfigs : c.tid # 0}

InitAdmin == twin = NoTwin /\ channel = NoChannelCall /\ \E c \in AdminConfigs : InitWith(c, 1)

NextAdmin ==
    \/ \E s \in Scopes, blob \in Blobs : UpdateLock(s, blob)
    \/ UpdateMake
    \/ \E g \in Groups : UpdateStore(g)
    \/ UpdateReturn
    \/ \E r \in Reqs :
         \/ resolveTier(r)
         \/ checkRedisRateLimit_LLen(r)
         \/ tbAllow(r)
         \/ memoryTotalCheck(r)
         \/ memorySuccessCheck(r)
         \/ cNext(r)
         \/ recordSuccess(r)
         \/ recordRedisRequest_LPush(r)
         \/ recordRedisRequest_LTrim(r)
         \/ recordRedisRequest_Expire(r)
         \/ memoryRecord(r)

SpecAdmin == InitAdmin /\ [][NextAdmin]_vars

\* ---- the in-process path in two runs: the same requests at the same
\* times, the handlers of the second run answering on their own

\* <<total, success>> limits of the enabled tier
TwinLimits == {<<0, 2>>, <<2, 1>>, <<1, 0>>}

TwinConfigs ==
    { [redis |-> FALSE, en |-> Only(s), modelD |-> 1, tokenD |-> 1,
       cnt |-> [x \in Scopes |-> IF x = s THEN l[1] ELSE 0],
       suc |-> [x \in Scopes |-> IF x = s THEN l[2] ELSE 0],
       grp |-> NoGroups, tid |-> 1, tg |-> "vip", ug |-> "vip"] :
      s \in Scopes, l \in TwinLimits }
    \cup {c \in AdminConfigs : ~c.redis}

InitTwin ==
    /\ twin = NewTwin
    /\ channel = NoChannelCall
    /\ \E c \in TwinConfigs : InitWith(c, NumReqs)

NextTwin ==
    \/ Tick
    \/ \E r \in Reqs :
         \/ resolveTier(r)
         \/ memoryTotalCheck(r)
         \/ memorySuccessCheck(r)
         \/ cNext(r)
         \/ recordSuccess(r)
         \/ memoryRecord(r)

SpecTwin == InitTwin /\ [][NextTwin]_vars

\* ---- the channel gatekeeper alone, on every error of the bounded inputs

InitChannel ==
    /\ twin = NoTwin
    /\ \E c \in AdminConfigs : InitWith(c, 0)
    /\ \E en \in BOOLEAN, e \in ChannelErrors :
         channel = [enabled |-> en, err |-> e, called |-> FALSE, result |-> FALSE]

NextChannel == CheckChannel

SpecChannel == InitChannel /\ [][NextChannel]_vars

\* =================================================================
\* Claims
\* =================================================================

AdmittedBy(s, sub) == {r \in Reqs : req[r].out[<<s, sub>>] = "admit"}
DecidedBy(s, sub) == {r \in Reqs : req[r].out[<<s, sub>>] \in {"admit", "reject"}}
LimitOf(s, sub) == IF sub = "total" THEN ResolveLimits(s)[1] ELSE ResolveLimits(s)[2]

\* C1: of the requests that check a fresh counter with limit K >= 1 before
\* any time has passed, at most K are admitted, and once all N > K of them
\* are decided exactly K are; this for the success tier and the total tier of
\* both backends.
C1_ExactlyKAdmitted ==
    \A t \in SubTiers :
        (now = 0 /\ LimitOf(t[1], t[2]) >= 1) =>
            /\ Cardinality(AdmittedBy(t[1], t[2])) <= LimitOf(t[1], t[2])
            /\ (Cardinality(DecidedBy(t[1], t[2])) = NumReqs /\ NumReqs > LimitOf(t[1], t[2]))
                   => Cardinality(AdmittedBy(t[1], t[2])) = LimitOf(t[1], t[2])

\* the records of scope s that lie inside the window of d seconds ending at t
WindowCount(s, t, d) ==
    Cardinality({i \in 1..Len(recLog[s]) : t - recLog[s][i] < d})

\* request r's success check on the shared backend ends in this step
SuccessCheckEnds(r) ==
    /\ pc[r] \in {"success", "LIndex"}
    /\ pc'[r] \notin {"success", "LIndex"}
    /\ req[r].success > 0

\* C2: on the shared backend, in each scope, a success check made when
\* maxCount events were recorded inside the window that ends now is not
\* admitted.
C2_FullWindowRejects ==
    [][\A r \in Reqs :
          (SuccessCheckEnds(r) /\ pc'[r] = "total")
              => WindowCount(req[r].scope, now, req[r].duration) < req[r].success]_vars

\* C3: every expiry set on a sliding-window key is the window of the policy
\* that owns the key.
C3_ExpiryEqualsWindow ==
    [][\A s \in Scopes :
          LET k == RedisSuccessKey(s)
          IN  (rdb'[k].expireAt # rdb[k].expireAt /\ rdb'[k].expireAt # NoExpiry)
                  => rdb'[k].expireAt = now + DurationSeconds(s)]_vars

\* C4: a success check is admitted if, with no backend failure, the window
\* had elapsed since the oldest retained event of its key when the check was
\* issued and has elapsed (or no event is retained, as after a full idle
\* window) when it is decided; on the shared backend and on the probe key of
\* the in-process path.
C4_ElapsedWindowAdmits ==
    [][\A r \in Reqs :
          /\ (/\ SuccessCheckEnds(r)
              /\ ~req'[r].failed
              /\ (pc[r] = "LIndex" => req[r].issuedElapsed)
              /\ OldestElapsed(rdb[RedisSuccessKey(req[r].scope)].list, now, req[r].duration))
                 => pc'[r] = "total"
          /\ (/\ pc[r] = "memSuccess" /\ pc'[r] # "memSuccess"
              /\ req[r].success >= 1
              /\ store[MemCheckKey(req[r].scope)] # <<>>
              /\ now - Head(store[MemCheckKey(req[r].scope)]) >= req[r].duration)
                 => pc'[r] # "done"]_vars

\* C6: a sub-tier whose resolved maxCount is 0 rejects no request, and no
\* counter operation is performed with maxCount 0.
C6_ZeroLimitTouchesNothing ==
    /\ \A a \in accessed : a[2] # 0
    /\ \A r \in Reqs : \A s \in Scopes :
          /\ req[r].lim[s][1] = 0 => req[r].out[<<s, "total">>] # "reject"
          /\ req[r].lim[s][2] = 0 => req[r].out[<<s, "success">>] # "reject"

\* the positions of log l whose call was made at time t
CallsAt(l, t) == {i \in 1..Len(l) : l[i][1] = t}

\* C5: on a full bucket of capacity maxCount * durationSeconds, rate maxCount
\* and cost durationSeconds, the first maxCount checks at time 0 are
\* admitted and every further check at time 0 is rejected; once maxCount
\* checks were made at time 0, of the checks made durationSeconds / maxCount
\* later exactly the first is admitted.
C5_BucketAdmitsMaxThenOne ==
    \A s \in Scopes :
        LET l == tbLog[s]
            k == RateLimitCount[s]
            wait == DurationSeconds(s) \div k
            later == CallsAt(l, wait)
        IN  (k >= 1) =>
              /\ \A i \in CallsAt(l, 0) : l[i][2] <=> (i <= k)
              /\ (Cardinality(CallsAt(l, 0)) >= k) =>
                    \A i \in later : l[i][2] <=> (\A j \in later : i <= j)

\* C5 witness: maxCount admitted and one rejected at time 0, then one
\* admitted and one rejected durationSeconds / maxCount later
C5_Witness ==
    \E s \in Scopes :
        LET l == tbLog[s]
            wait == DurationSeconds(s) \div RateLimitCount[s]
        IN  /\ RateLimitCount[s] = 1
            /\ Len(l) = 4
            /\ l[1] = <<0, TRUE>> /\ l[2] = <<0, FALSE>>
            /\ l[3] = <<wait, TRUE>> /\ l[4] = <<wait, FALSE>>

\* the limits the policy of scope s gives the request's group
Expected(s) ==
    IF ScopeGroup(s) \in DOMAIN RateLimitGroup[s]
    THEN RateLimitGroup[s][ScopeGroup(s)]
    ELSE <<RateLimitCount[s], RateLimitSuccessCount[s]>>

\* C7: in each scope the limits a request checks with, the limit it records
\* with and the limit of every counter operation are the override of the
\* request's group when the map has one, and the scope defaults otherwise.
C7_OverridePrecedence ==
    /\ \A r \in Reqs : \A s \in Scopes :
          /\ req[r].lim[s] # <<-1, -1>> => req[r].lim[s] = Expected(s)
          /\ req[r].rec[s] # -1 => req[r].rec[s] = Expected(s)[2]
    /\ \A a \in accessed : \E s \in Scopes :
          \/ a[1] \in {RedisSuccessKey(s), MemSuccessKey(s), MemCheckKey(s)}
               /\ a[2] = Expected(s)[2]
          \/ a[1] \in {RedisTotalKey(s), MemTotalKey(s)} /\ a[2] = Expected(s)[1]

\* C7 witness: a request checked and recorded with an override lower than
\* the scope default
C7_Witness ==
    \E r \in Reqs : \E s \in Scopes :
        /\ ScopeGroup(s) \in DOMAIN RateLimitGroup[s]
        /\ RateLimitGroup[s][ScopeGroup(s)][2] < RateLimitSuccessCount[s]
        /\ req[r].lim[s] = RateLimitGroup[s][ScopeGroup(s)]
        /\ req[r].rec[s] = RateLimitGroup[s][ScopeGroup(s)][2]
        /\ pc[r] = "done"

\* C8: a lookup that runs beside a well-formed update of its scope's map
\* returns what the complete old map or the complete new map gives, never
\* what an empty or half-filled map gives.
C8_LookupSeesWholeMap ==
    got.wellFormed =>
        got.result \in {MapLookup(got.old, got.group), MapLookup(got.new, got.group)}

\* C9: after an update that returned an error, the scope's override map is
\* the map the update found.
C9_FailedUpdateKeepsMap ==
    (upd.pc = "returned" /\ upd.err) => RateLimitGroup[upd.scope] = upd.old

\* C10: the protected handler has run only for requests that no tier
\* rejected and no check failed.
C10_HandlerOnlyIfAdmitted ==
    \A r \in Reqs :
        req[r].ran => \A t \in SubTiers : req[r].out[t] \notin {"reject", "error"}

\* C10 witness: the user total tier rejected a request on the shared
\* backend, the handler fell through to c.Next(), and the protected handler
\* did not run
C10_Witness ==
    \E r \in Reqs :
        /\ RedisEnabled
        /\ pc[r] = "done"
        /\ req[r].out[<<"ModelRequest", "total">>] = "reject"
        /\ req[r].status = StatusTooManyRequests
        /\ ~req[r].ran

\* C11: a request whose check met a failing backend call has the
\* internal-error status, is aborted, did not reach the protected handler
\* and carries no throttling rejection.
C11_BackendFailureIsInternalError ==
    \A r \in Reqs :
        req[r].failed =>
            /\ req[r].status = StatusInternalServerError
            /\ req[r].aborted
            /\ ~req[r].ran
            /\ \A t \in SubTiers : req[r].out[t] # "reject"

\* the number of records request r started on the success counter of scope s
RecordCount(r, s) ==
    Cardinality({i \in 1..Len(req[r].order) : req[r].order[i] = s})

\* C12: a request records at most once on each success counter, and records
\* at all only if the protected handler ran, its status is below 400 and no
\* tier rejected it or failed.
C12_AtMostOneRecord ==
    \A r \in Reqs :
        /\ \A s \in Scopes : RecordCount(r, s) <= 1
        /\ req[r].order # <<>> =>
              /\ req[r].ran
              /\ req[r].status < ErrorStatusFloor
              /\ \A t \in SubTiers : req[r].out[t] \notin {"reject", "error"}

\* C12 witness: a finished request that recorded once on each of the three
\* success counters
C12_Witness ==
    \E r \in Reqs :
        /\ pc[r] = "done"
        /\ \A s \in Scopes : RecordCount(r, s) = 1

\* C14: a request that records on the three success counters records on the
\* key-minute counter first, then the key-daily counter, then the user
\* counter.
C14_RecordOrder ==
    \A r \in Reqs :
        Len(req[r].order) = 3 => req[r].order = <<"Token", "TokenDaily", "ModelRequest">>

\* C15: a request whose handler returned on a cancelled request, without
\* writing a status, records on no success counter.
C15_CancelledNeverRecords ==
    \A r \in Reqs : req[r].cancelled => req[r].order = <<>>

\* the scope word a throttling response of scope s has to carry
ScopeWord(s) == IF s \in TokenScopes THEN "key" ELSE "user"

\* the limit request r resolved for sub-tier t
ResolvedLimit(r, t) ==
    IF t[2] = "total" THEN req[r].lim[t[1]][1] ELSE req[r].lim[t[1]][2]

\* sub-tier t, with a limit of at least 1, rejected request r
Throttled(r, t) == req[r].out[t] = "reject" /\ ResolvedLimit(r, t) >= 1

\* C16: the response of every throttling rejection has a body that states
\* the scope, the window and the limit of the sub-tier that rejected.
C16_RejectionDisclosesLimit ==
    \A r \in Reqs : \A t \in SubTiers :
        Throttled(r, t) =>
            /\ req[r].msg.body
            /\ req[r].msg.scope = ScopeWord(t[1])
            /\ req[r].msg.window * MinuteSeconds = DurationSeconds(t[1])
            /\ req[r].msg.limit = ResolvedLimit(r, t)

\* C18: in every state the log of a sliding-window key is no longer than
\* the success limit in force for its scope.
C18_LogWithinLimit ==
    \A s \in Scopes : Len(rdb[RedisSuccessKey(s)].list) <= Expected(s)[2]

\* the scopes ModelRequestRateLimit evaluates after scope s
LaterScopes(s) ==
    CASE s = "Token" -> {"TokenDaily", "ModelRequest"}
      [] s = "TokenDaily" -> {"ModelRequest"}
      [] s = "ModelRequest" -> {}

\* C19: a request that the success sub-tier of a scope (with a success
\* limit of at least 1) rejected has not
\* consulted the total counter of that scope, nor any counter of a later
\* scope.
C19_SuccessBeforeTotal ==
    \A r \in Reqs : \A s \in Scopes :
        Throttled(r, <<s, "success">>) =>
            /\ req[r].out[<<s, "total">>] = "none"
            /\ \A l \in LaterScopes(s) :
                  req[r].out[<<l, "success">>] = "none" /\ req[r].out[<<l, "total">>] = "none"

\* C13: once a request whose handler succeeded is finished, the success
\* counters it recorded on are those whose success check it performed, each
\* with the limit of that check.
C13_RecordsWhatWasChecked ==
    \A r \in Reqs :
        (pc[r] = "done" /\ req[r].ran /\ req[r].status < ErrorStatusFloor) =>
            \A s \in Scopes :
                /\ (req[r].rec[s] # -1) <=> (req[r].out[<<s, "success">>] = "admit")
                /\ (req[r].rec[s] # -1) => req[r].rec[s] = req[r].lim[s][2]

\* the lower-cased message of the error holds a transient phrase
Transient(err) == \E ph \in TransientPhrases : Contains(LowerAll(err.msg), ph)

\* C17: the gatekeeper answers true exactly when automatic disabling is on,
\* the error is present, its lower-cased message holds no transient phrase,
\* and the status is 401 or 403 or the type is insufficient_quota with a
\* status other than 429; so never for status 429 and never for a message
\* that holds timeout.
C17_DisableExactlyWhen ==
    channel.called =>
        LET e == channel.err
        IN  /\ channel.result <=>
                  /\ channel.enabled
                  /\ e.present
                  /\ ~Transient(e)
                  /\ \/ e.status = 401
                     \/ e.status = 403
                     \/ e.type = "insufficient_quota" /\ e.status # 429
            /\ (e.present /\ e.status = 429) => ~channel.result
            /\ (\E i \in 1..Len(e.msg) : ToLower(e.msg[i]) = "timeout") => ~channel.result

\* C17 witness: an insufficient_quota error of status 500 with a harmless
\* message disables, and is the third way to disable
C17_Witness ==
    /\ channel.called
    /\ channel.result
    /\ channel.err.type = "insufficient_quota"
    /\ channel.err.status = 500
    /\ channel.err.msg = <<"invalid", "key">>

\* C20: in the in-process path, every admit/reject decision of the second
\* run, which receives the same requests at the same times and differs in
\* the statuses its handlers answer, is the decision of the first run.
C20_DecisionsIgnoreHandlerStatus ==
    twin.on =>
        \A r \in Reqs : \A t \in SubTiers :
            twin.out[r][t] = IF req[r].out[t] \in {"admit", "reject"} THEN req[r].out[t]
                             ELSE "none"

\* C20 witness: the handlers of the two runs answered the first request
\* differently, the real success keys of the two runs differ, and the
\* success sub-tier has decided the second request after that
C20_Witness ==
    /\ twin.on
    /\ \E s \in Scopes :
          /\ store[MemSuccessKey(s)] # twin.store[MemSuccessKey(s)]
          /\ RecordsSuccess(req[1].status) # RecordsSuccess(twin.status[1])
          /\ pc[1] = "done"
          /\ req[2].out[<<s, "success">>] = "admit"
          /\ store[MemCheckKey(s)] = <<0, MinuteSeconds>>

\* C21: a request whose check ended with the internal error met a failing
\* backend call: with every backend call answering, checkRedisRateLimit
\* returns admit or reject, whatever expires or is recorded between its
\* length read and its oldest-entry read.
C21_ErrorOnlyOnBackendFailure ==
    \A r \in Reqs :
        (\E t \in SubTiers : req[r].out[t] = "error") => req[r].failed

====
